---- MODULE Spec2Model ----
(***************************************************************************)
(* Model of the relay test harness of src/src/build-transactions.ts.       *)
(*                                                                         *)
(* The file holds two revisions of the module one after the other.  Lines  *)
(* 1-441 are the revision that has an entry point (main().catch at line    *)
(* 441); lines 443-680 are an earlier revision whose main is never called. *)
(* The program modelled here is the revision with the entry point.         *)
(*                                                                         *)
(* The harness is one chain of awaits, so its position is the variable pc. *)
(* The relay and the ledger are the environment: the relay answers a       *)
(* submission with any of the responses HTTP allows, and the ledger        *)
(* settles an accepted transaction at any later moment.                    *)
(***************************************************************************)
EXTENDS Integers, Sequences, FiniteSets, TLC

\* ---------------------------------------------------------------------
\* Program constants
\* ---------------------------------------------------------------------
LAMPORTS_PER_SOL == 1000000000

\* const txnFee = BigInt(5000)
txnFee == 5000

\* The fee the ledger charges a settled single-signature transaction.
LedgerFee == 5000

\* '11111111111111111111111111111111' // Stale blockhash
StaleBlockhash == "11111111111111111111111111111111"

\* The blockhash connection.getLatestBlockhash() returns.
LiveBlockhash == "recent"

\* type TestMode
TestMode ==
  {"valid-single", "invalid-single", "valid-bundle",
   "invalid-bundle-first", "invalid-bundle-second"}

\* process.argv[2]: absent, empty, a scenario name, or another string
NoArg == "<absent>"
Argv == TestMode \cup {NoArg, "", "invalid-bundle", "bogus"}

\* process.env.X after dotenv.config(): unset, empty or a URL
EnvValue == {"<unset>", "", "url"}

\* balances the sender may hold when the run starts
SenderFunds == {100000000, 25000000}

\* account 0 is the sender's, 1 and 2 are the recipients'
Sender == 0
Accounts == {0, 1, 2}

\* response.result of a response body without a result member
NoSig == 0

\* ---------------------------------------------------------------------
\* Pure parts of the program
\* ---------------------------------------------------------------------
\* JavaScript truthiness of an optional string
Falsy(v) == v \in {"<unset>", NoArg, ""}

\* if (!ATLAS_SERVICE_URL || !RPC_URL) throw ...
ConfigMissing_And(atlas, rpc) == Falsy(atlas) /\ Falsy(rpc)
ConfigMissing(atlas, rpc) == Falsy(atlas) \/ Falsy(rpc)

\* if (!mode || ![...five names...].includes(mode))
InvalidMode_Old(arg) ==
  Falsy(arg) \/
  arg \notin {"valid-single", "invalid-single", "valid-bundle", "invalid-bundle"}
InvalidMode(arg) ==
  Falsy(arg) \/
  arg \notin {"valid-single", "invalid-single", "valid-bundle",
              "invalid-bundle-first", "invalid-bundle-second"}

\* mode.includes('bundle') ? 2 : 1
numRecipients(m) ==
  IF m \in {"valid-bundle", "invalid-bundle-first", "invalid-bundle-second",
            "invalid-bundle"}
  THEN 2 ELSE 1

\* BigInt(0.01 * LAMPORTS_PER_SOL) and friends; the products are exact
\* (written as hundredths so that no intermediate value leaves 32 bits)
Amount001 == (LAMPORTS_PER_SOL \div 100) * 1
Amount002 == (LAMPORTS_PER_SOL \div 100) * 2
Amount003 == (LAMPORTS_PER_SOL \div 100) * 3

\* createTestTransaction(fromKeypair, toPubkey, amount, blockhash)
createTestTransaction(to, amount, blockhash) ==
  [to |-> to, amount |-> amount, blockhash |-> blockhash, signed |-> FALSE]

\* first switch of runTest: expectedSenderChange
ExpectedSenderChange_NoFee(m) ==
  CASE m = "valid-single" -> 0 - Amount001
    [] m = "invalid-single" -> 0 - (Amount003 + txnFee)
    [] m \in {"valid-bundle", "invalid-bundle-first", "invalid-bundle-second"}
         -> 0 - (Amount001 + Amount002 + txnFee * 2)
    [] OTHER -> 0
ExpectedSenderChange_OneFee(m) ==
  CASE m = "valid-single" -> 0 - (Amount001 + txnFee)
    [] m = "invalid-single" -> 0 - (Amount003 + txnFee)
    [] m \in {"valid-bundle", "invalid-bundle-first", "invalid-bundle-second"}
         -> 0 - (Amount001 + Amount002 + txnFee)
    [] OTHER -> 0
ExpectedSenderChange(m) ==
  CASE m = "valid-single" -> 0 - (Amount001 + txnFee)
    [] m = "invalid-single" -> 0 - (Amount003 + txnFee)
    [] m \in {"valid-bundle", "invalid-bundle-first", "invalid-bundle-second"}
         -> 0 - (Amount001 + Amount002 + txnFee * 2)
    [] OTHER -> 0

\* first switch of runTest: expectedRecipientChanges
ExpectedRecipientChanges(m) ==
  CASE m = "valid-single" -> <<Amount001>>
    [] m = "invalid-single" -> <<Amount003>>
    [] m \in {"valid-bundle", "invalid-bundle-first", "invalid-bundle-second"}
         -> <<Amount001, Amount002>>
    [] OTHER -> [i \in 1..numRecipients(m) |-> 0]

\* first switch of runTest: transactions
BuildTransactions_AllStale(m, recent) ==
  CASE m \in {"valid-single", "invalid-single"} ->
         <<createTestTransaction(1, Amount001, StaleBlockhash)>>
    [] m \in {"valid-bundle", "invalid-bundle-first", "invalid-bundle-second"} ->
         <<createTestTransaction(1, Amount001, StaleBlockhash),
           createTestTransaction(2, Amount002, StaleBlockhash)>>
    [] OTHER -> <<>>
BuildTransactions(m, recent) ==
  CASE m = "valid-single" ->
         <<createTestTransaction(1, Amount001, recent)>>
    [] m = "invalid-single" ->
         <<createTestTransaction(1, Amount003, StaleBlockhash)>>
    [] m = "valid-bundle" ->
         <<createTestTransaction(1, Amount001, recent),
           createTestTransaction(2, Amount002, recent)>>
    [] m = "invalid-bundle-first" ->
         <<createTestTransaction(1, Amount001, StaleBlockhash),
           createTestTransaction(2, Amount002, recent)>>
    [] m = "invalid-bundle-second" ->
         <<createTestTransaction(1, Amount001, recent),
           createTestTransaction(2, Amount002, StaleBlockhash)>>
    [] OTHER -> <<>>

\* transactions.forEach((tx) => tx.sign([keypair]))
SignAll_First(txs) ==
  [i \in DOMAIN txs |-> [txs[i] EXCEPT !.signed = (i = 1)]]
SignAll(txs) == [i \in DOMAIN txs |-> [txs[i] EXCEPT !.signed = TRUE]]

\* tx.serialize(): the wire encoding, signatures first, then the message
\* (account keys, recent blockhash, instruction data)
serialize(tx) == <<tx.signed, Sender, tx.to, tx.blockhash, tx.amount>>

\* recipients.map(async (recipient, i) => ...): the callback of recipient i
\* works on index i, and Promise.all returns the results in the order of
\* the promises, whatever the order in which they resolve
ResultSlot_Completion(i, resolved) == Cardinality(resolved) + 1
ResultSlot(i, resolved) == i

\* JSON.stringify({ transactions: transactions.map(...), mode }) as written
\* by fs.writeFileSync, which replaces the content the file had
OutputContent_Append(old, txs, m) ==
  [exists |-> TRUE,
   transactions |-> old.transactions \o [i \in DOMAIN txs |-> serialize(txs[i])],
   mode |-> m]
OutputContent(old, txs, m) ==
  [exists |-> TRUE,
   transactions |-> [i \in DOMAIN txs |-> serialize(txs[i])],
   mode |-> m]

\* test-transactions.json when the process starts: absent, or what an
\* earlier valid-single run (other recipient, older blockhash) left there
NoFile == [exists |-> FALSE, transactions |-> <<>>, mode |-> NoArg]
EarlierFile ==
  OutputContent(NoFile,
                SignAll(<<createTestTransaction(3, Amount001, "older")>>),
                "valid-single")

\* `Change matched expected: ${actual === expected}`: the verdict is
\* printed and nothing is thrown
Verify_Assert(actual, expected) ==
  [verdict |-> IF actual = expected THEN "match" ELSE "mismatch",
   throws |-> actual # expected]
Verify(actual, expected) ==
  [verdict |-> IF actual = expected THEN "match" ELSE "mismatch",
   throws |-> FALSE]

\* ---------------------------------------------------------------------
\* State
\* ---------------------------------------------------------------------
VARIABLES
  pc,            \* position of the program
  argv,          \* process.argv[2]
  envAtlas,      \* process.env.ATLAS_SERVICE_URL
  envRpc,        \* process.env.RPC_URL
  keypairFile,   \* content of keypair.json: "absent" or "key"
  outputFile,    \* content of test-transactions.json
  filesRead,     \* names of the files read so far
  filesWritten,  \* names of the files written so far
  netCalls,      \* number of relay and ledger requests answered so far
  stderr,        \* what console.error and the runtime reported
  exitCode,      \* -1 while running, else the status of the process
  abortCause,    \* "none" or what rejected runTest
  mode,          \* runTest's parameter
  recipients,    \* indices of the generated recipient keypairs
  balance,       \* the ledger: account -> lamports
  senderInitialBalance,
  recipientInitialBalances,
  expectedSenderChange,
  expectedRecipientChanges,
  recentBlockhash,
  transactions,
  relayResponse, \* the relay's response to the submission
  accepted,      \* indices of the transactions the relay forwarded
  settled,       \* transaction index -> "no", "ok" or "err"
  pending,       \* members of the current Promise.all not yet resolved
  confirmCalls,  \* signatures confirmTransaction was called with
  confirmed,     \* signatures whose confirmTransaction has resolved
  relayRequests, \* the requests posted to the relay, in order
  actualSenderChange,
  actualRecipientChanges,
  senderVerdict, \* "none", "match" or "mismatch"
  recipientVerdicts,
  \* src/src/setup-keypair.ts
  sPc,           \* position of setupKeypair ("idle" between two runs)
  envDevnet,     \* process.env.PUBLIC_DEVNET_RPC
  runs,          \* number of setup runs started so far
  keypair,       \* setupKeypair's local keypair, "none" before it is set
  publicKeyFile, \* content of public-key.txt
  airdrops,      \* number of confirmed airdrops of LAMPORTS_PER_SOL * 2
  setupError     \* what the last setup run reported with console.error

vars ==
  <<pc, argv, envAtlas, envRpc, keypairFile, outputFile, filesRead,
    filesWritten, netCalls, stderr, exitCode, abortCause, mode, recipients,
    balance, senderInitialBalance, recipientInitialBalances,
    expectedSenderChange, expectedRecipientChanges, recentBlockhash,
    transactions, relayResponse, accepted, settled, pending, confirmCalls,
    confirmed, relayRequests, actualSenderChange, actualRecipientChanges, senderVerdict,
    recipientVerdicts, sPc, envDevnet, runs, keypair, publicKeyFile,
    airdrops, setupError>>

\* the state of the keypair setup; the harness never touches it
setupVars ==
  <<sPc, envDevnet, runs, keypair, publicKeyFile, airdrops, setupError>>

envVars == <<argv, envAtlas, envRpc, keypairFile, setupVars>>
fileVars == <<outputFile, filesRead, filesWritten>>
ledgerVars == <<balance, settled>>
snapshotVars == <<senderInitialBalance, recipientInitialBalances>>
buildVars ==
  <<expectedSenderChange, expectedRecipientChanges, recentBlockhash,
    transactions>>
relayVars ==
  <<relayResponse, accepted, confirmCalls, confirmed, relayRequests>>
verifyVars ==
  <<actualSenderChange, actualRecipientChanges, senderVerdict,
    recipientVerdicts>>

Init ==
  /\ pc = "load"
  /\ argv \in Argv
  /\ envAtlas \in EnvValue
  /\ envRpc \in EnvValue
  /\ keypairFile \in {"absent", "key"}
  /\ outputFile \in {NoFile, EarlierFile}
  /\ filesRead = {}
  /\ filesWritten = {}
  /\ netCalls = 0
  /\ stderr = <<>>
  /\ exitCode = -1
  /\ abortCause = "none"
  /\ mode = NoArg
  /\ recipients = {}
  /\ \E f \in SenderFunds :
       balance = [a \in Accounts |-> IF a = Sender THEN f ELSE 0]
  /\ senderInitialBalance = 0
  /\ recipientInitialBalances = <<>>
  /\ expectedSenderChange = 0
  /\ expectedRecipientChanges = <<>>
  /\ recentBlockhash = "none"
  /\ transactions = <<>>
  /\ relayResponse = [kind |-> "none", result |-> <<>>]
  /\ accepted = {}
  /\ settled = [i \in 1..2 |-> "no"]
  /\ pending = {}
  /\ confirmCalls = {}
  /\ confirmed = {}
  /\ relayRequests = <<>>
  /\ actualSenderChange = 0
  /\ actualRecipientChanges = <<>>
  /\ senderVerdict = "none"
  /\ recipientVerdicts = <<>>
  /\ sPc = "off"
  /\ envDevnet = "<unset>"
  /\ runs = 0
  /\ keypair = "none"
  /\ publicKeyFile = "absent"
  /\ airdrops = 0
  /\ setupError = "none"

\* ---------------------------------------------------------------------
\* Module load and main
\* ---------------------------------------------------------------------
\* dotenv.config(); the two URL constants; the check that throws
Load ==
  /\ pc = "load"
  /\ filesRead' = filesRead \cup {".env"}
  /\ IF ConfigMissing(envAtlas, envRpc)
     THEN /\ pc' = "config_error"
          /\ stderr' = Append(stderr, "config")
          /\ exitCode' = 1
     ELSE /\ pc' = "main"
          /\ UNCHANGED <<stderr, exitCode>>
  /\ UNCHANGED <<envVars, outputFile, filesWritten, netCalls, abortCause,
                 mode, recipients, ledgerVars, snapshotVars, buildVars,
                 relayVars, pending, verifyVars>>

\* main(): validate process.argv[2], then runTest(mode)
main ==
  /\ pc = "main"
  /\ mode' = argv
  /\ IF InvalidMode(argv)
     THEN /\ pc' = "usage_exit"
          /\ stderr' = Append(stderr, "usage")
          /\ exitCode' = 1
     ELSE /\ pc' = "loadKeypair"
          /\ UNCHANGED <<stderr, exitCode>>
  /\ UNCHANGED <<envVars, fileVars, netCalls, abortCause, recipients,
                 ledgerVars, snapshotVars, buildVars, relayVars, pending,
                 verifyVars>>

\* a throw inside runTest: the promise of runTest is rejected
Reject_Retry(cause) ==
  IF cause = "relay"
  THEN /\ pc' = "submit"
       /\ abortCause' = abortCause
       /\ pending' = pending
  ELSE /\ pc' = "rejected"
       /\ abortCause' = cause
       /\ pending' = {}
Reject(cause) ==
  /\ pc' = "rejected"
  /\ abortCause' = cause
  /\ pending' = {}

\* main().catch(console.error): the rejection is logged and the process
\* ends once the event loop is empty; nothing sets the exit status
TopLevelCatch ==
  /\ pc = "rejected"
  /\ pc' = "exited"
  /\ stderr' = Append(stderr, "caught")
  /\ exitCode' = 0
  /\ UNCHANGED <<envVars, fileVars, netCalls, abortCause, mode, recipients,
                 ledgerVars, snapshotVars, buildVars, relayVars, pending,
                 verifyVars>>

\* runTest returned: main's promise resolves and the process ends
ProcessEnd ==
  /\ pc = "resolved"
  /\ pc' = "exited"
  /\ exitCode' = 0
  /\ UNCHANGED <<envVars, fileVars, netCalls, stderr, abortCause, mode,
                 recipients, ledgerVars, snapshotVars, buildVars, relayVars,
                 pending, verifyVars>>

\* ---------------------------------------------------------------------
\* runTest up to signing
\* ---------------------------------------------------------------------
\* JSON.parse(fs.readFileSync('keypair.json', 'utf-8'))
loadKeypair_OrGenerate ==
  /\ pc = "loadKeypair"
  /\ filesRead' = filesRead \cup {"keypair.json"}
  /\ keypairFile' = "key"
  /\ filesWritten' =
       IF keypairFile = "absent"
       THEN filesWritten \cup {"keypair.json"} ELSE filesWritten
  /\ pc' = "recipients"
  /\ UNCHANGED <<argv, envAtlas, envRpc, setupVars, outputFile, netCalls,
                 stderr, exitCode, abortCause, pending, mode, recipients,
                 ledgerVars,
                 snapshotVars, buildVars, relayVars, verifyVars>>
loadKeypair ==
  /\ pc = "loadKeypair"
  /\ filesRead' = filesRead \cup {"keypair.json"}
  /\ IF keypairFile = "absent"
     THEN Reject("fs")
     ELSE /\ pc' = "recipients"
          /\ UNCHANGED <<abortCause, pending>>
  /\ UNCHANGED <<envVars, outputFile, filesWritten, netCalls, stderr,
                 exitCode, mode, recipients, ledgerVars, snapshotVars,
                 buildVars, relayVars, verifyVars>>

\* Array(numRecipients).fill(null).map(() => Keypair.generate())
CreateRecipients ==
  /\ pc = "recipients"
  /\ recipients' = 1..numRecipients(mode)
  /\ recipientInitialBalances' = [i \in 1..numRecipients(mode) |-> -1]
  /\ actualRecipientChanges' = [i \in 1..numRecipients(mode) |-> 0]
  /\ recipientVerdicts' = [i \in 1..numRecipients(mode) |-> "none"]
  /\ pc' = "senderInit"
  /\ UNCHANGED <<envVars, fileVars, netCalls, stderr, exitCode, abortCause,
                 mode, ledgerVars, senderInitialBalance, buildVars,
                 relayVars, pending, actualSenderChange, senderVerdict>>

\* senderInitialBalance = await checkBalance(connection, keypair.publicKey)
SenderInitial ==
  /\ pc = "senderInit"
  /\ netCalls' = netCalls + 1
  /\ \/ /\ senderInitialBalance' = balance[Sender]
        /\ pc' = "recipInit"
        /\ pending' = recipients
        /\ UNCHANGED abortCause
     \/ /\ Reject("ledger")
        /\ UNCHANGED senderInitialBalance
  /\ UNCHANGED <<envVars, fileVars, stderr, exitCode, mode, recipients,
                 ledgerVars, recipientInitialBalances, buildVars, relayVars,
                 verifyVars>>

\* one member of the Promise.all over the recipients' initial balances
RecipientInitial(i) ==
  /\ pc = "recipInit"
  /\ i \in pending
  /\ netCalls' = netCalls + 1
  /\ \/ /\ recipientInitialBalances' =
             [recipientInitialBalances EXCEPT
                ![ResultSlot(i, recipients \ pending)] = balance[i]]
        /\ pending' = pending \ {i}
        /\ pc' = IF pending' = {} THEN "blockhash" ELSE pc
        /\ UNCHANGED abortCause
     \/ /\ Reject("ledger")
        /\ UNCHANGED recipientInitialBalances
  /\ UNCHANGED <<envVars, fileVars, stderr, exitCode, mode, recipients,
                 ledgerVars, senderInitialBalance, buildVars, relayVars,
                 verifyVars>>

\* recentBlockhash = (await connection.getLatestBlockhash()).blockhash
GetLatestBlockhash ==
  /\ pc = "blockhash"
  /\ netCalls' = netCalls + 1
  /\ \/ /\ recentBlockhash' = LiveBlockhash
        /\ pc' = "build"
        /\ UNCHANGED <<abortCause, pending>>
     \/ /\ Reject("ledger")
        /\ UNCHANGED recentBlockhash
  /\ UNCHANGED <<envVars, fileVars, stderr, exitCode, mode, recipients,
                 ledgerVars, snapshotVars, expectedSenderChange,
                 expectedRecipientChanges, transactions, relayVars,
                 verifyVars>>

\* switch (mode): the expected changes and the transactions
Build ==
  /\ pc = "build"
  /\ expectedSenderChange' = ExpectedSenderChange(mode)
  /\ expectedRecipientChanges' = ExpectedRecipientChanges(mode)
  /\ transactions' = BuildTransactions(mode, recentBlockhash)
  /\ pc' = "sign"
  /\ UNCHANGED <<envVars, fileVars, netCalls, stderr, exitCode, abortCause,
                 mode, recipients, ledgerVars, snapshotVars, recentBlockhash,
                 relayVars, pending, verifyVars>>

\* transactions.forEach((tx) => tx.sign([keypair]))
Sign ==
  /\ pc = "sign"
  /\ transactions' = SignAll(transactions)
  /\ pc' = "submit"
  /\ UNCHANGED <<envVars, fileVars, netCalls, stderr, exitCode, abortCause,
                 mode, recipients, ledgerVars, snapshotVars,
                 expectedSenderChange, expectedRecipientChanges,
                 recentBlockhash, relayVars, pending, verifyVars>>

\* ---------------------------------------------------------------------
\* The relay: sendTransaction and sendTransactionBundle
\* ---------------------------------------------------------------------
\* bs58.encode(bytes)
encode(bytes) == <<"base58", bytes>>

\* sendTransaction: params[0] = bs58.encode(tx.serialize())
SinglePayload(tx) == encode(serialize(tx))

\* sendTransactionBundle: params[0] = txs.map((tx) => bs58.encode(...))
BundlePayload_Reversed(txs) ==
  [i \in DOMAIN txs |-> encode(serialize(txs[Len(txs) + 1 - i]))]
BundlePayload(txs) == [i \in DOMAIN txs |-> encode(serialize(txs[i]))]

\* await Promise.all(...): resumes when no member is pending any more
AllResolved_Any(pend) == TRUE
AllResolved(pend) == pend = {}

\* what axios.post can come back with for a request carrying n transactions:
\* a rejection of the promise (transport error or non-2xx status), a 2xx
\* body without a result member (a JSON-RPC error object), or a 2xx body
\* whose result holds the signatures of the transactions the relay accepted
RelayResponses(n) ==
  {[kind |-> "throw", result |-> <<>>], [kind |-> "noresult", result |-> <<>>]}
  \cup {[kind |-> "result", result |-> r] :
          r \in IF n = 1 THEN {<<1>>} ELSE {<<>>, <<1>>, <<2>>, <<1, 2>>}}

Range(f) == {f[i] : i \in DOMAIN f}

\* case 'valid-single' / 'invalid-single':
\*   response = await sendTransaction(transactions[0]);
\*   await confirmTransaction(connection, response.result)
\* sendTransaction logs and rethrows what axios throws and returns
\* response.data otherwise, whatever its shape
sendTransaction ==
  /\ pc = "submit"
  /\ mode \in {"valid-single", "invalid-single"}
  /\ netCalls' = netCalls + 1
  /\ relayRequests' =
       Append(relayRequests,
              [method |-> "sendTransaction",
               payload |-> SinglePayload(transactions[1])])
  /\ UNCHANGED confirmed
  /\ \E resp \in RelayResponses(1) :
       /\ relayResponse' = resp
       /\ accepted' = Range(resp.result)
       /\ CASE resp.kind = "throw" ->
                 /\ stderr' = Append(stderr, "Error sending transaction")
                 /\ Reject("relay")
                 /\ UNCHANGED confirmCalls
            [] resp.kind = "noresult" ->
                 /\ confirmCalls' = {NoSig}
                 /\ pending' = {NoSig}
                 /\ pc' = "confirm"
                 /\ UNCHANGED <<stderr, abortCause>>
            [] OTHER ->
                 /\ confirmCalls' = Range(resp.result)
                 /\ pending' = Range(resp.result)
                 /\ pc' = "confirm"
                 /\ UNCHANGED <<stderr, abortCause>>
  /\ UNCHANGED <<envVars, fileVars, exitCode, mode, recipients, ledgerVars,
                 snapshotVars, buildVars, verifyVars>>

\* `bundleResponse.result.length should be 0: ${... === 0}` (and 1): the
\* length of the returned sequence is only logged, never thrown on
ExpectedLength(m) ==
  CASE m = "invalid-bundle-first" -> 0
    [] m = "invalid-bundle-second" -> 1
    [] OTHER -> 2
LengthCheckThrows_Strict(m, result) == Len(result) # ExpectedLength(m)
LengthCheckThrows(m, result) == FALSE

\* case 'valid-bundle' / 'invalid-bundle-first' / 'invalid-bundle-second':
\*   bundleResponse = await sendTransactionBundle(transactions);
\* then bundleResponse.result.length is read (the invalid cases) and the
\* signatures are confirmed (all but invalid-bundle-first); reading a member
\* of an undefined result is a TypeError
sendTransactionBundle ==
  /\ pc = "submit"
  /\ mode \in {"valid-bundle", "invalid-bundle-first", "invalid-bundle-second"}
  /\ netCalls' = netCalls + 1
  /\ relayRequests' =
       Append(relayRequests,
              [method |-> "sendTransactionBundle",
               payload |-> BundlePayload(transactions)])
  /\ UNCHANGED confirmed
  /\ \E resp \in RelayResponses(Len(transactions)) :
       /\ relayResponse' = resp
       /\ accepted' = Range(resp.result)
       /\ CASE resp.kind = "throw" ->
                 /\ stderr' = Append(stderr, "Error sending transaction bundle")
                 /\ Reject("relay")
                 /\ UNCHANGED confirmCalls
            [] resp.kind = "noresult" ->
                 /\ Reject("TypeError")
                 /\ UNCHANGED <<stderr, confirmCalls>>
            [] resp.kind = "result" /\ LengthCheckThrows(mode, resp.result) ->
                 /\ Reject("length")
                 /\ UNCHANGED <<stderr, confirmCalls>>
            [] resp.kind = "result" /\ mode = "invalid-bundle-first" ->
                 /\ pc' = "finalSender"
                 /\ UNCHANGED <<stderr, abortCause, pending, confirmCalls>>
            [] OTHER ->
                 /\ confirmCalls' = Range(resp.result)
                 /\ pending' = Range(resp.result)
                 /\ pc' = IF resp.result = <<>> THEN "finalSender" ELSE "confirm"
                 /\ UNCHANGED <<stderr, abortCause>>
  /\ UNCHANGED <<envVars, fileVars, exitCode, mode, recipients, ledgerVars,
                 snapshotVars, buildVars, verifyVars>>

\* ---------------------------------------------------------------------
\* The ledger
\* ---------------------------------------------------------------------
\* The ledger processes a transaction the relay forwarded.  Only a signed
\* transaction on a live blockhash is processed.  The fee payer is charged
\* the fee; the transfer happens if the rest of the balance covers it.
LedgerSettle(i) ==
  /\ i \in accepted
  /\ i \in DOMAIN transactions
  /\ settled[i] = "no"
  /\ transactions[i].signed
  /\ transactions[i].blockhash = LiveBlockhash
  /\ balance[Sender] >= LedgerFee
  /\ IF balance[Sender] >= transactions[i].amount + LedgerFee
     THEN /\ balance' =
               [balance EXCEPT
                  ![Sender] = @ - (transactions[i].amount + LedgerFee),
                  ![transactions[i].to] = @ + transactions[i].amount]
          /\ settled' = [settled EXCEPT ![i] = "ok"]
     ELSE /\ balance' = [balance EXCEPT ![Sender] = @ - LedgerFee]
          /\ settled' = [settled EXCEPT ![i] = "err"]
  /\ UNCHANGED <<pc, envVars, fileVars, netCalls, stderr, exitCode,
                 abortCause, mode, recipients, snapshotVars, buildVars,
                 relayVars, pending, verifyVars>>

\* ---------------------------------------------------------------------
\* Confirmation
\* ---------------------------------------------------------------------
\* confirmTransaction(connection, signature): getLatestBlockhash, then
\* connection.confirmTransaction(..., 'finalized'), which resolves once the
\* ledger has processed the transaction
ConfirmResolves(sig) ==
  /\ pc = "confirm"
  /\ sig \in pending
  /\ sig # NoSig
  /\ settled[sig] # "no"
  /\ netCalls' = netCalls + 2
  /\ pending' = pending \ {sig}
  /\ confirmed' = confirmed \cup {sig}
  /\ pc' = IF AllResolved(pending') THEN "finalSender" ELSE pc
  /\ UNCHANGED <<envVars, fileVars, stderr, exitCode, abortCause, mode,
                 recipients, ledgerVars, snapshotVars, buildVars,
                 relayResponse, accepted, confirmCalls, relayRequests,
                 verifyVars>>

\* ... or it throws: the gateway fails, or the signature is not a base58
\* string
ConfirmThrows(sig) ==
  /\ pc = "confirm"
  /\ sig \in pending
  /\ netCalls' = netCalls + 1
  /\ Reject("ledger")
  /\ UNCHANGED <<envVars, fileVars, stderr, exitCode, mode, recipients,
                 ledgerVars, snapshotVars, buildVars, relayVars, verifyVars>>

\* ... or the transaction is not finalized before the block height of the
\* fetched blockhash passes, and connection.confirmTransaction throws
ConfirmExpires(sig) ==
  /\ pc = "confirm"
  /\ sig \in pending
  /\ sig # NoSig
  /\ settled[sig] = "no"
  /\ netCalls' = netCalls + 2
  /\ Reject("expired")
  /\ UNCHANGED <<envVars, fileVars, stderr, exitCode, mode, recipients,
                 ledgerVars, snapshotVars, buildVars, relayVars, verifyVars>>

\* ---------------------------------------------------------------------
\* Verification and persistence
\* ---------------------------------------------------------------------
\* senderFinalBalance = await checkBalance(...); the sender's verdict
SenderFinal ==
  /\ pc = "finalSender"
  /\ netCalls' = netCalls + 1
  /\ \/ LET actual == balance[Sender] - senderInitialBalance
            v == Verify(actual, expectedSenderChange)
        IN  /\ actualSenderChange' = actual
            /\ senderVerdict' = v.verdict
            /\ IF v.throws
               THEN Reject("mismatch")
               ELSE /\ pc' = "finalRecips"
                    /\ pending' = recipients
                    /\ UNCHANGED abortCause
     \/ /\ Reject("ledger")
        /\ UNCHANGED <<actualSenderChange, senderVerdict>>
  /\ UNCHANGED <<envVars, fileVars, stderr, exitCode, mode, recipients,
                 ledgerVars, snapshotVars, buildVars, relayVars,
                 actualRecipientChanges, recipientVerdicts>>

\* one member of the Promise.all over the recipients' final balances
RecipientFinal(i) ==
  /\ pc = "finalRecips"
  /\ i \in pending
  /\ netCalls' = netCalls + 1
  /\ \/ LET k == ResultSlot(i, recipients \ pending)
            actual == balance[i] - recipientInitialBalances[k]
            v == Verify(actual, expectedRecipientChanges[k])
        IN  /\ actualRecipientChanges' =
                 [actualRecipientChanges EXCEPT ![k] = actual]
            /\ recipientVerdicts' = [recipientVerdicts EXCEPT ![k] = v.verdict]
            /\ IF v.throws
               THEN Reject("mismatch")
               ELSE /\ pending' = pending \ {i}
                    /\ pc' = IF pending' = {} THEN "persist" ELSE pc
                    /\ UNCHANGED abortCause
     \/ /\ Reject("ledger")
        /\ UNCHANGED <<actualRecipientChanges, recipientVerdicts>>
  /\ UNCHANGED <<envVars, fileVars, stderr, exitCode, mode, recipients,
                 ledgerVars, snapshotVars, buildVars, relayVars,
                 actualSenderChange, senderVerdict>>

\* fs.writeFileSync('test-transactions.json', JSON.stringify({...}))
Persist ==
  /\ pc = "persist"
  /\ outputFile' = OutputContent(outputFile, transactions, mode)
  /\ filesWritten' = filesWritten \cup {"test-transactions.json"}
  /\ pc' = "resolved"
  /\ UNCHANGED <<envVars, filesRead, netCalls, stderr, exitCode, abortCause,
                 mode, recipients, ledgerVars, snapshotVars, buildVars,
                 relayVars, pending, verifyVars>>

\* ---------------------------------------------------------------------
\* Specification
\* ---------------------------------------------------------------------
\* the steps of the program
Harness ==
  \/ Load
  \/ main
  \/ TopLevelCatch
  \/ ProcessEnd
  \/ loadKeypair
  \/ CreateRecipients
  \/ SenderInitial
  \/ \E i \in 1..2 : RecipientInitial(i)
  \/ GetLatestBlockhash
  \/ Build
  \/ Sign
  \/ sendTransaction
  \/ sendTransactionBundle
  \/ \E sig \in 1..2 : ConfirmResolves(sig)
  \/ \E sig \in 0..2 : ConfirmThrows(sig)
  \/ \E sig \in 1..2 : ConfirmExpires(sig)
  \/ SenderFinal
  \/ \E i \in 1..2 : RecipientFinal(i)
  \/ Persist

Next ==
  \/ Harness
  \/ \E i \in 1..2 : LedgerSettle(i)

Spec == Init /\ [][Next]_vars

\* the event loop runs every continuation that is ready
FairSpec == Spec /\ WF_vars(Harness)

\* ---------------------------------------------------------------------
\* Properties
\* ---------------------------------------------------------------------
\* the run got through balance verification
Verified ==
  \/ pc \in {"persist", "resolved"}
  \/ pc = "exited" /\ abortCause = "none"

AllMatch ==
  /\ senderVerdict = "match"
  /\ \A i \in recipients : recipientVerdicts[i] = "match"

\* C1: in an invalid-bundle-second run where the relay returns exactly one
\* signature and only the first leg settles, the declared expected deltas
\* are -(a1 + fee) for the sender, +a1 for recipient 1 and 0 for recipient
\* 2, and verification reports a match for all three accounts.
C1_ExpectedOneLeg ==
  (/\ mode = "invalid-bundle-second"
   /\ Verified
   /\ relayResponse.result = <<1>>
   /\ settled[1] = "ok" /\ settled[2] = "no")
  => /\ expectedSenderChange = 0 - (transactions[1].amount + txnFee)
     /\ expectedRecipientChanges = <<transactions[1].amount, 0>>
     /\ AllMatch

\* C2: in an invalid-bundle-first run where the relay returns zero
\* signatures, no balance changes, the declared expected delta is 0 for
\* the sender and both recipients, and verification reports a match for
\* every account.
C2_ExpectedNoLeg ==
  (/\ mode = "invalid-bundle-first"
   /\ Verified
   /\ relayResponse.kind = "result"
   /\ relayResponse.result = <<>>)
  => /\ balance[Sender] = senderInitialBalance
     /\ \A i \in recipients : balance[i] = recipientInitialBalances[i]
     /\ expectedSenderChange = 0
     /\ expectedRecipientChanges = <<0, 0>>
     /\ AllMatch

\* C3: in a valid-single run where the relay accepts the transaction and it
\* settles, exactly one signature is returned, the declared expected deltas
\* are -(amount + fee) for the sender and +amount for the recipient, and
\* the comparison by integer equality reports a match for both accounts.
C3_ValidSingle ==
  (/\ mode = "valid-single"
   /\ Verified
   /\ settled[1] = "ok")
  => /\ Len(relayResponse.result) = 1
     /\ expectedSenderChange = 0 - (transactions[1].amount + txnFee)
     /\ expectedRecipientChanges = <<transactions[1].amount>>
     /\ actualSenderChange = expectedSenderChange
     /\ actualRecipientChanges = expectedRecipientChanges
     /\ AllMatch

C3_Witness ==
  /\ mode = "valid-single"
  /\ pc = "resolved"
  /\ settled[1] = "ok"
  /\ actualSenderChange = 0 - (Amount001 + LedgerFee)
  /\ AllMatch

\* C4: in a valid-bundle run where the relay accepts both legs and both
\* settle, two signatures are returned, the declared expected deltas are
\* -(a1 + a2 + 2*fee) for the sender, +a1 and +a2 for the recipients, and
\* verification reports a match for all three accounts.
C4_ValidBundle ==
  (/\ mode = "valid-bundle"
   /\ Verified
   /\ settled[1] = "ok" /\ settled[2] = "ok")
  => /\ Len(relayResponse.result) = 2
     /\ expectedSenderChange =
          0 - (transactions[1].amount + transactions[2].amount + 2 * txnFee)
     /\ expectedRecipientChanges =
          <<transactions[1].amount, transactions[2].amount>>
     /\ actualSenderChange = expectedSenderChange
     /\ actualRecipientChanges = expectedRecipientChanges
     /\ AllMatch

C4_Witness ==
  /\ mode = "valid-bundle"
  /\ pc = "resolved"
  /\ settled[1] = "ok" /\ settled[2] = "ok"
  /\ actualSenderChange = 0 - (Amount001 + Amount002 + 2 * LedgerFee)
  /\ AllMatch

\* the relay rejected the submission: the request failed, or the 2xx body
\* is a JSON-RPC error object
RelayRejected == relayResponse.kind \in {"throw", "noresult"}

\* C5: in an invalid-single run where the relay rejects the submission, the
\* failure propagates and the run aborts: no confirmation is attempted, no
\* balance verification is performed, and the balances are those sampled
\* before submission.
C5_RejectedSingleAborts ==
  (mode = "invalid-single" /\ RelayRejected)
  => /\ pc \in {"rejected", "exited"}
     /\ abortCause = "relay"
     /\ confirmCalls = {}
     /\ senderVerdict = "none"
     /\ \A i \in recipients : recipientVerdicts[i] = "none"
     /\ balance[Sender] = senderInitialBalance
     /\ \A i \in recipients : balance[i] = recipientInitialBalances[i]

\* C6: an error of the relay or of the ledger gateway during a run reaches
\* the top-level runner, which logs it and ends the process with a
\* non-zero exit status.
C6_ErrorExitsNonZero ==
  (abortCause \in {"relay", "ledger"} /\ pc = "exited")
  => /\ stderr # <<>> /\ stderr[Len(stderr)] = "caught"
     /\ exitCode # 0

\* C7: for submitSingle and submitBundle, every non-2xx or malformed relay
\* response is surfaced as a thrown error; the pipeline never proceeds to
\* confirmation with a missing signature.
C7_MalformedThrows ==
  RelayRejected
  => /\ pc \in {"rejected", "exited"}
     /\ abortCause # "none"
     /\ NoSig \notin confirmCalls

C10_MismatchIsSoft ==
  /\ [](("test-transactions.json" \in filesWritten) =>
          /\ senderVerdict # "none"
          /\ \A i \in recipients : recipientVerdicts[i] # "none")
  /\ []((senderVerdict # "none" /\ pc = "rejected") => abortCause = "ledger")
  /\ [](pc = "finalSender" =>
          <>("test-transactions.json" \in filesWritten \/ abortCause = "ledger"))

C10_Witness ==
  /\ "test-transactions.json" \in filesWritten
  /\ senderVerdict = "mismatch"
  /\ recipientVerdicts = <<"match", "mismatch">>
  /\ abortCause = "none"

\* the file test-transactions.json was written by this run
Persisted == "test-transactions.json" \in filesWritten

BundleAnswered ==
  /\ mode \in {"valid-bundle", "invalid-bundle-first", "invalid-bundle-second"}
  /\ relayResponse.kind = "result"

\* every returned signature of a transaction on the live blockhash has
\* been processed by the ledger
LiveLegsSettled ==
  \A sig \in Range(relayResponse.result) :
    transactions[sig].blockhash = LiveBlockhash => settled[sig] # "no"

\* C11 as stated: in every bundle scenario, for any returned signature
\* sequence of length 0, 1 or 2, the run does not abort and proceeds to
\* balance verification and persistence (here even granting that no
\* gateway call fails and that the ledger processes every live leg).
C11_AnyLengthProceeds ==
  (BundleAnswered /\ LiveLegsSettled) => abortCause \in {"none", "ledger"}

\* C11 (amended): in every bundle scenario, a returned signature sequence
\* of any length 0, 1 or 2 is not itself an error: the run goes on to
\* confirm the returned signatures (none in invalid-bundle-first) and then
\* to balance verification and persistence, and it aborts only if a
\* returned signature is never finalized or a gateway call fails.
C11_LengthIsNoError ==
  /\ [](BundleAnswered =>
          /\ abortCause \in {"none", "ledger", "expired"}
          /\ abortCause = "expired" =>
               /\ mode # "invalid-bundle-first"
               /\ relayResponse.result # <<>>
               /\ senderVerdict = "none")
  /\ [](BundleAnswered =>
          <>(Persisted \/ abortCause \in {"ledger", "expired"}))

C11_Witness ==
  /\ mode = "valid-bundle"
  /\ relayResponse.result = <<2>>
  /\ Persisted
  /\ abortCause = "none"

\* C12 as stated: after any invocation that runs one of the five
\* scenarios (here: one that got as far as its relay request), the output
\* file holds exactly the wire encodings of the transactions built for
\* that run, in build order, with that run's scenario name, and nothing
\* from an earlier run.
C12_OverwrittenEveryRun ==
  (pc = "exited" /\ mode \in TestMode /\ relayResponse.kind # "none")
  => /\ outputFile.exists
     /\ outputFile.mode = mode
     /\ outputFile.transactions =
          [i \in 1..Len(transactions) |-> serialize(transactions[i])]

\* C12 (amended): the output file is overwritten by every run that reaches
\* persistence: it then holds exactly the wire encodings of the signed
\* transactions built for that run (1 for single scenarios, 2 for bundle
\* scenarios, in build order) with that run's scenario name and nothing
\* from an earlier run; a run that aborts earlier leaves the file as it was.
C12_OverwrittenWhenPersisted ==
  /\ [](Persisted =>
          /\ outputFile.exists
          /\ outputFile.mode = argv
          /\ Len(outputFile.transactions) =
               (IF argv \in {"valid-single", "invalid-single"} THEN 1 ELSE 2)
          /\ \A i \in 1..Len(outputFile.transactions) :
               /\ outputFile.transactions[i] = serialize(transactions[i])
               /\ outputFile.transactions[i][1] = TRUE
               /\ outputFile.transactions[i][3] = i)
  /\ [][~Persisted' => outputFile' = outputFile]_vars

C12_Witness ==
  /\ Persisted
  /\ pc = "exited"
  /\ mode = "invalid-bundle-second"
  /\ Len(outputFile.transactions) = 2
  /\ outputFile.transactions[1][4] = LiveBlockhash
  /\ outputFile.transactions[2][4] = StaleBlockhash

\* C13: the keypair file is read but never written by the harness: across
\* every run, completed or aborted, its content is unchanged.
C13_KeypairNeverWritten ==
  /\ []("keypair.json" \notin filesWritten)
  /\ [][keypairFile' = keypairFile]_vars

C13_Witness ==
  /\ "keypair.json" \in filesRead
  /\ keypairFile = "absent"
  /\ pc = "exited"
  /\ abortCause = "fs"

C13_WitnessCompleted ==
  /\ "keypair.json" \in filesRead
  /\ keypairFile = "key"
  /\ Persisted

\* the phase of the scenario runner a position of the program belongs to:
\* 0 Initialized, 1 RecipientsCreated, 2 TransactionsBuilt, 3 Signed,
\* 4 Submitted, 5 Confirmed, 6 Verified, 7 Persisted; -1 once the run ended
PhaseAt(p, confirming) ==
  CASE p \in {"load", "main", "loadKeypair", "recipients"} -> 0
    [] p \in {"senderInit", "recipInit", "blockhash", "build"} -> 1
    [] p = "sign" -> 2
    [] p = "submit" -> 3
    [] p = "confirm" -> 4
    [] p \in {"finalSender", "finalRecips"} -> IF confirming = {} THEN 4 ELSE 5
    [] p = "persist" -> 6
    [] p = "resolved" -> 7
    [] OTHER -> -1

Phase == PhaseAt(pc, confirmCalls)

ScenarioSize == IF argv \in {"valid-single", "invalid-single"} THEN 1 ELSE 2

AllSigned ==
  /\ Len(transactions) = ScenarioSize
  /\ \A i \in 1..Len(transactions) : transactions[i].signed

AllVerdicts ==
  /\ senderVerdict # "none"
  /\ \A i \in recipients : recipientVerdicts[i] # "none"

\* C14: every run moves through Initialized, RecipientsCreated,
\* TransactionsBuilt, Signed, Submitted, Confirmed (optional), Verified,
\* Persisted strictly in that order, never going back and skipping no phase
\* but Confirmed (a run may end early); every transaction of the scenario
\* is built and signed before the relay request is issued, and Persisted is
\* reached only after Verified.
C14_PhasesInOrder ==
  /\ [][LET a == Phase
            b == PhaseAt(pc', confirmCalls')
        IN  \/ b = -1
            \/ a >= 0 /\ b \in {a, a + 1}
            \/ a = 4 /\ b = 6]_vars
  /\ [](/\ Phase >= 1 => recipients = 1..ScenarioSize
        /\ Phase >= 2 => Len(transactions) = ScenarioSize
        /\ Phase >= 3 => AllSigned
        /\ Phase \in 0..3 => relayResponse.kind = "none"
        /\ relayResponse.kind # "none" => AllSigned
        /\ Phase >= 4 => relayResponse.kind \in {"result", "noresult"}
        /\ Phase >= 6 => AllVerdicts
        /\ Phase \in 0..6 => ~Persisted
        /\ Persisted => AllVerdicts)

C14_Witness ==
  /\ Phase = 7
  /\ mode = "valid-bundle"
  /\ confirmCalls = {1, 2}
  /\ AllSigned
  /\ AllVerdicts

\* a final balance has been read
FinalRead == pc \in {"finalRecips", "persist", "resolved"} \/ senderVerdict # "none"

\* C15: in valid-single, valid-bundle and invalid-bundle-second the
\* post-submission balances are read only after the confirmation of every
\* signature the relay returned has completed; several confirmations run
\* concurrently and verification waits for all of them, in any order.
C15_ReadAfterAllConfirmed ==
  /\ (mode \in {"valid-single", "valid-bundle", "invalid-bundle-second"}
      /\ (pc = "finalSender" \/ FinalRead))
     => /\ relayResponse.kind = "result"
        /\ confirmed = Range(relayResponse.result)
        /\ \A sig \in confirmed : settled[sig] # "no"
  /\ pc = "confirm" => confirmCalls = pending \cup confirmed

C15_Witness ==
  /\ mode = "valid-bundle"
  /\ pc = "finalSender"
  /\ confirmed = {1, 2}

\* one of two confirmations has completed, the other is still awaited, in
\* either order
C15_WitnessSecondFirst ==
  /\ mode = "valid-bundle"
  /\ pc = "confirm"
  /\ confirmed = {2}
  /\ pending = {1}

\* the legs the scenario table marks stale
StaleLegs(m) ==
  CASE m = "invalid-single" -> {1}
    [] m = "invalid-bundle-first" -> {1}
    [] m = "invalid-bundle-second" -> {2}
    [] OTHER -> {}

C17_OneRelayRequest ==
  /\ Len(relayRequests) <= 1
  /\ relayRequests = <<>> <=> relayResponse.kind = "none"
  /\ relayRequests # <<>> =>
       LET q == relayRequests[1]
       IN  IF mode \in {"valid-single", "invalid-single"}
           THEN /\ q.method = "sendTransaction"
                /\ Len(transactions) = 1
                /\ q.payload = <<"base58", serialize(transactions[1])>>
           ELSE /\ q.method = "sendTransactionBundle"
                /\ Len(q.payload) = 2
                /\ \A i \in 1..2 :
                     q.payload[i] = <<"base58", serialize(transactions[i])>>
                /\ q.payload[1] # q.payload[2]

C17_Witness ==
  /\ mode = "valid-bundle"
  /\ relayResponse.kind = "throw"
  /\ pc = "exited"
  /\ Len(relayRequests) = 1
  /\ relayRequests[1].payload[2][2][3] = 2

\* C18: the concurrent balance reads are merged by account, not by
\* completion order: whenever the read of recipient i completes, in the
\* initial or the final snapshot, the value lands with recipient i; the
\* delta reported for recipient i is its final balance minus its initial
\* balance, and it is compared with the expected delta of recipient i.
C18_MergedByAccount ==
  [][\A i \in recipients :
       /\ (pc = "recipInit" /\ i \in pending /\ i \notin pending'
             /\ pc' # "rejected")
            => recipientInitialBalances'[i] = balance[i]
       /\ (pc = "finalRecips" /\ i \in pending /\ i \notin pending'
             /\ pc' # "rejected")
            => /\ actualRecipientChanges'[i] =
                    balance[i] - recipientInitialBalances[i]
               /\ recipientVerdicts'[i] =
                    (IF actualRecipientChanges'[i] = expectedRecipientChanges[i]
                     THEN "match" ELSE "mismatch")
               /\ \A j \in recipients \ {i} :
                    /\ recipientVerdicts'[j] = recipientVerdicts[j]
                    /\ actualRecipientChanges'[j] = actualRecipientChanges[j]
     ]_vars

\* recipient 2's final read completed before recipient 1's
C18_Witness ==
  /\ mode = "valid-bundle"
  /\ pc = "finalRecips"
  /\ pending = {1}
  /\ settled[2] = "ok"
  /\ actualRecipientChanges[2] = Amount002
  /\ recipientVerdicts[2] = "match"
  /\ recipientVerdicts[1] = "none"

\* C19: assuming every relay and gateway call eventually returns or fails,
\* every invocation with a valid scenario name runs exactly one scenario
\* and eventually ends, in the Persisted state or in an abort caused by a
\* propagated failure; it never starts a second scenario or a second
\* submission.
C19_OneScenarioThenEnds ==
  /\ []((pc = "main" /\ argv \in TestMode) =>
          <>(/\ pc = "exited"
             /\ mode = argv
             /\ (Persisted /\ abortCause = "none")
                  \/ (~Persisted /\ abortCause # "none")))
  /\ [][/\ Len(relayRequests') <= 1
        /\ mode # NoArg => mode' = mode
        /\ pc = "exited" => pc' = "exited"
        /\ Persisted => (Persisted' /\ outputFile' = outputFile)]_vars

C19_Witness ==
  /\ pc = "exited"
  /\ mode = "invalid-single"
  /\ abortCause = "relay"
  /\ Len(relayRequests) = 1
  /\ ~Persisted

\* C20: in every run that reaches verification, whatever the relay
\* returned, the final balances are never read while a signature returned
\* by the relay is still unconfirmed, invalid-bundle-first with a non-empty
\* signature sequence included.
C20_NeverReadUnconfirmed ==
  FinalRead
  => Range(relayResponse.result) \subseteq confirmed

\* ---------------------------------------------------------------------
\* Keypair setup: src/src/setup-keypair.ts
\* ---------------------------------------------------------------------
\* number of times the setup script is run, one run after the other
MaxSetupRuns == 3

\* the keypairs Keypair.generate() may return
NewKeys == {"k1", "k2"}

\* `[${Buffer.from(keypair.secretKey.toString())}]`: the secret key bytes as
\* the text of a JSON array
KeyJson(k) ==
  CASE k = "k0" -> "key"
    [] k = "k1" -> "[k1]"
    [] k = "k2" -> "[k2]"
    [] OTHER -> "[]"

\* Keypair.fromSecretKey(Uint8Array.from(JSON.parse(text))); a text that is
\* no JSON array of key bytes makes it throw
ParseKeypair(text) ==
  CASE text = "key" -> "k0"
    [] text = "[k1]" -> "k1"
    [] text = "[k2]" -> "k2"
    [] OTHER -> "throws"

\* keypair.publicKey.toString()
PublicKeyOf(k) ==
  CASE k = "k0" -> "pub0"
    [] k = "k1" -> "pub1"
    [] k = "k2" -> "pub2"
    [] OTHER -> "pub?"

\* fs.existsSync('keypair.json')
KeypairExists_Never(file) == FALSE
KeypairExists(file) == file # "absent"

\* everything of the harness; the setup script only shares keypair.json
harnessVars ==
  <<pc, argv, envAtlas, envRpc, fileVars, netCalls, stderr, exitCode,
    abortCause, mode, recipients, ledgerVars, snapshotVars, buildVars,
    relayVars, pending, verifyVars>>

SetupInit ==
  /\ pc = "off"
  /\ argv = NoArg
  /\ envAtlas = "<unset>"
  /\ envRpc = "<unset>"
  /\ keypairFile \in {"absent", "key", "garbage"}
  /\ outputFile = NoFile
  /\ filesRead = {}
  /\ filesWritten = {}
  /\ netCalls = 0
  /\ stderr = <<>>
  /\ exitCode = -1
  /\ abortCause = "none"
  /\ mode = NoArg
  /\ recipients = {}
  /\ balance = [a \in Accounts |-> 0]
  /\ senderInitialBalance = 0
  /\ recipientInitialBalances = <<>>
  /\ expectedSenderChange = 0
  /\ expectedRecipientChanges = <<>>
  /\ recentBlockhash = "none"
  /\ transactions = <<>>
  /\ relayResponse = [kind |-> "none", result |-> <<>>]
  /\ accepted = {}
  /\ settled = [i \in 1..2 |-> "no"]
  /\ pending = {}
  /\ confirmCalls = {}
  /\ confirmed = {}
  /\ relayRequests = <<>>
  /\ actualSenderChange = 0
  /\ actualRecipientChanges = <<>>
  /\ senderVerdict = "none"
  /\ recipientVerdicts = <<>>
  /\ sPc = "idle"
  /\ envDevnet \in EnvValue
  /\ runs = 0
  /\ keypair = "none"
  /\ publicKeyFile = "absent"
  /\ airdrops = 0
  /\ setupError = "none"

\* setupKeypair(): if (!PUBLIC_DEVNET_RPC) { console.error(...); return; }
SetupStart ==
  /\ sPc = "idle"
  /\ runs < MaxSetupRuns
  /\ runs' = runs + 1
  /\ keypair' = "none"
  /\ IF Falsy(envDevnet)
     THEN /\ setupError' = "RPC_URL is not set"
          /\ sPc' = "idle"
     ELSE /\ setupError' = "none"
          /\ sPc' = "check"
  /\ UNCHANGED <<harnessVars, keypairFile, envDevnet, publicKeyFile, airdrops>>

\* if (fs.existsSync('keypair.json')) { load } else { generate and write }
LoadOrGenerate ==
  /\ sPc = "check"
  /\ IF KeypairExists(keypairFile)
     THEN /\ IF ParseKeypair(keypairFile) = "throws"
             THEN /\ setupError' = "rejected"
                  /\ sPc' = "idle"
                  /\ UNCHANGED keypair
             ELSE /\ keypair' = ParseKeypair(keypairFile)
                  /\ sPc' = "balance"
                  /\ UNCHANGED setupError
          /\ UNCHANGED <<keypairFile, publicKeyFile>>
     ELSE /\ \E k \in NewKeys :
               /\ keypair' = k
               /\ keypairFile' = KeyJson(k)
               /\ publicKeyFile' = PublicKeyOf(k)
          /\ sPc' = "balance"
          /\ UNCHANGED setupError
  /\ UNCHANGED <<harnessVars, envDevnet, runs, airdrops>>

\* balance = await devnetConnection.getBalance(keypair.publicKey), outside
\* the try: a failure rejects setupKeypair and .catch(console.error) logs it
BalanceBefore ==
  /\ sPc = "balance"
  /\ \/ /\ sPc' = "airdrop"
        /\ UNCHANGED setupError
     \/ /\ sPc' = "idle"
        /\ setupError' = "rejected"
  /\ UNCHANGED <<harnessVars, keypairFile, envDevnet, runs, keypair,
                 publicKeyFile, airdrops>>

\* try { requestAirdrop } catch (error) { console.error(...) }
RequestAirdrop ==
  /\ sPc = "airdrop"
  /\ \/ /\ sPc' = "confirm"
        /\ UNCHANGED setupError
     \/ /\ sPc' = "idle"
        /\ setupError' = "Error requesting airdrop"
  /\ UNCHANGED <<harnessVars, keypairFile, envDevnet, runs, keypair,
                 publicKeyFile, airdrops>>

\* try { getLatestBlockhash; confirmTransaction } catch ...
ConfirmAirdrop ==
  /\ sPc = "confirm"
  /\ \/ /\ sPc' = "after"
        /\ airdrops' = airdrops + 1
        /\ UNCHANGED setupError
     \/ /\ sPc' = "idle"
        /\ setupError' = "Error requesting airdrop"
        /\ UNCHANGED airdrops
  /\ UNCHANGED <<harnessVars, keypairFile, envDevnet, runs, keypair,
                 publicKeyFile>>

\* try { balanceAfter = await getBalance(...) } catch ...
BalanceAfter ==
  /\ sPc = "after"
  /\ sPc' = "idle"
  /\ \/ UNCHANGED setupError
     \/ setupError' = "Error requesting airdrop"
  /\ UNCHANGED <<harnessVars, keypairFile, envDevnet, runs, keypair,
                 publicKeyFile, airdrops>>

SetupNext ==
  \/ SetupStart
  \/ LoadOrGenerate
  \/ BalanceBefore
  \/ RequestAirdrop
  \/ ConfirmAirdrop
  \/ BalanceAfter

SetupSpec == SetupInit /\ [][SetupNext]_vars

\* C21: the keypair setup never replaces an existing keypair: over any
\* number of setup runs, a keypair file that exists is loaded and left
\* unchanged, a new keypair is generated and written only when the file is
\* absent, and an airdrop failure is caught and does not alter the file.
C21_NeverReplacesKeypair ==
  /\ [][/\ keypairFile # "absent" =>
             (keypairFile' = keypairFile /\ publicKeyFile' = publicKeyFile)
        /\ keypairFile' # keypairFile =>
             /\ sPc = "check"
             /\ keypairFile = "absent"
             /\ keypair' \in NewKeys
             /\ keypairFile' \in {"[k1]", "[k2]"}
        /\ sPc \in {"airdrop", "confirm", "after"} =>
             /\ keypairFile' = keypairFile
             /\ sPc' \in {"confirm", "after", "idle"}
       ]_vars
  /\ [](sPc \in {"balance", "airdrop", "confirm", "after"} =>
          /\ keypair \in {"k0", "k1", "k2"}
          /\ keypairFile = (CASE keypair = "k0" -> "key"
                              [] keypair = "k1" -> "[k1]"
                              [] OTHER -> "[k2]"))

\* a second run has loaded the keypair the first run generated, after the
\* first run's airdrop failed
C21_Witness ==
  /\ runs = 2
  /\ sPc = "balance"
  /\ keypair = "k1"
  /\ keypairFile = "[k1]"
  /\ publicKeyFile = "pub1"
  /\ airdrops = 0

====
